---------------------------- MODULE Spec2Model ----------------------------
(* A model of the file_backup program: the record model (File, Folder),   *)
(* the validation filter, the four storage handlers (local, sftp, gdrive, *)
(* dropbox) and the run of Console: enumerate the input folder, then copy *)
(* it with its content to the output handler.                             *)
(*                                                                        *)
(* Strings are sequences of one-character strings, so that str.replace,   *)
(* str.split, str.startswith and re.match are computed as Python computes *)
(* them. Python objects live in `heap`; a reference is an index into it   *)
(* and 0 is None. The recursion of set_content and upload_folder is the   *)
(* call stack `stack`, whose last element is the running call.            *)
EXTENDS Naturals, Sequences, FiniteSets, TLC

VARIABLES
    args,       \* the arguments given to Console(...), or to the caller that
                \* builds the handlers itself and runs the statements of Console.run
    phase,      \* where Console is: "new", "ready", "enumerate", "copy", "done", "crashed",
                \* "called" (a caller has called a single method of a handler)
    error,      \* the exception that ended the run, "none" when there is none
    validators, \* validators[side]: the validator list of the input / output handler
    fs,         \* fs[h]: the tree of the path-addressed backends (local, sftp, dropbox)
    denied,     \* the names at which the backends refuse access: no folder of that
                \* name can be created, no file of that name read or written
    drive,      \* the records of the Google Drive backend
    heap,       \* the File and Folder objects
    stack,      \* the running calls of set_content / upload_folder
    fresh,      \* the next identity a backend hands out (inode, Drive id, Dropbox id)
    runs,       \* the number of runs of Console.run started so far
    root,       \* the input Folder of Console.run (0 before it is built)
    result,     \* the Folder returned by the top-level upload_folder (0 when none)
    log,        \* the backend calls that changed a backend, in order, and a mark
                \* where each run of Console.run starts
    attempts,   \* the source records upload_folder was called on within the
                \* running top-level call, in the order of the calls
    call        \* the last call a caller made of a single method of a handler,
                \* with its outcome

vars == <<args, phase, error, validators, fs, denied, drive, heap, stack, fresh, runs,
          root, result, log, attempts, call>>

--------------------------------------------------------------------------
(* Strings                                                                *)

SL == "/"
DOT == "."

\* str.startswith(p)
StartsWith(s, p) == Len(p) <= Len(s) /\ SubSeq(s, 1, Len(p)) = p

\* str.replace(old, new) for a non-empty old: the non-overlapping
\* occurrences of old, found from the left, all replaced
RECURSIVE Replace(_, _, _)
Replace(s, old, new) ==
    IF s = <<>> THEN <<>>
    ELSE IF StartsWith(s, old)
         THEN new \o Replace(SubSeq(s, Len(old) + 1, Len(s)), old, new)
         ELSE <<Head(s)>> \o Replace(Tail(s), old, new)

\* str.split(ch): the pieces between the occurrences of ch, empty ones kept
RECURSIVE SplitAcc(_, _, _)
SplitAcc(s, ch, cur) ==
    IF s = <<>> THEN <<cur>>
    ELSE IF Head(s) = ch
         THEN <<cur>> \o SplitAcc(Tail(s), ch, <<>>)
         ELSE SplitAcc(Tail(s), ch, Append(cur, Head(s)))

Split(s, ch) == SplitAcc(s, ch, <<>>)

\* "/".join(parts)
RECURSIVE Join(_)
Join(parts) ==
    IF parts = <<>> THEN <<>>
    ELSE IF Len(parts) = 1 THEN parts[1]
    ELSE parts[1] \o <<SL>> \o Join(Tail(parts))

\* the elements of a sequence that are not empty, in order
RECURSIVE NonEmpty(_)
NonEmpty(parts) ==
    IF parts = <<>> THEN <<>>
    ELSE IF Head(parts) = <<>> THEN NonEmpty(Tail(parts))
    ELSE <<Head(parts)>> \o NonEmpty(Tail(parts))

\* the location a path string names on a path-addressed backend: its
\* segments, empty ones dropped; a leading "/" is kept as the first element
Norm(p) ==
    (IF StartsWith(p, <<SL>>) THEN <<<<SL>>>> ELSE <<>>) \o NonEmpty(Split(p, SL))

\* pathlib.Path(path).name: the last segment ("" when there is none)
PathName(p) ==
    LET segs == NonEmpty(Split(p, SL))
    IN  IF segs = <<>> THEN <<>> ELSE segs[Len(segs)]

--------------------------------------------------------------------------
(* Config and Validator                                                   *)

\* Python values that may be None: <<>> is None, <<v>> is the value v
None == <<>>
Some(v) == <<v>>

\* Config.EXCLUDED_NAMES, each pattern as re.match reads it: the text that
\* must stand at the start of the path, and whether the pattern ends in $
\* (then the path must end where the text ends)
EXCLUDED_NAMES ==
    << [text |-> <<"_","_">>, whole |-> FALSE],
       [text |-> <<"l","_","e","n","v">>, whole |-> FALSE],
       [text |-> <<"e","n","v">>, whole |-> FALSE],
       [text |-> <<"v","e","n","v">>, whole |-> FALSE],
       [text |-> <<".">>, whole |-> FALSE],
       [text |-> <<"n","o","d","e","_","m","o","d","u","l","e","s">>, whole |-> TRUE],
       [text |-> <<"l","i","b">>, whole |-> TRUE],
       [text |-> <<"d","i","s","t">>, whole |-> TRUE],
       [text |-> <<"b","u","i","l","d">>, whole |-> TRUE] >>

\* Config.EXCLUDED_FORMATS
EXCLUDED_FORMATS ==
    << <<"p","y","c">>, <<"p","y","d">>, <<"l","n","k">>, <<"t","o","c">> >>

\* re.compile(r).match(path) for a pattern of EXCLUDED_NAMES
ReMatch(r, path) ==
    IF r.whole THEN path = r.text ELSE StartsWith(path, r.text)

\* Validator.name_validator
name_validator(path) ==
    ~ \E i \in 1..Len(EXCLUDED_NAMES) : ReMatch(EXCLUDED_NAMES[i], path)

\* Validator.format_validator
format_validator(path) ==
    LET parts == Split(path, DOT)
        format_ == parts[Len(parts)]
    IN  ~ \E i \in 1..Len(EXCLUDED_FORMATS) : format_ = EXCLUDED_FORMATS[i]

\* a callable of the caller's own, as set_validators takes any: it rejects
\* the paths that end in the name sub
caller_validator(path) ==
    LET parts == Split(path, "/")
    IN  parts[Len(parts)] # <<"s","u","b">>

\* the call validator(path) of one validator of a handler's list
CallValidator(v, path) ==
    IF v = "format_validator" THEN format_validator(path)
    ELSE IF v = "caller_validator" THEN caller_validator(path)
    ELSE name_validator(path)

\* a mutation of ValidateFrom: the loop goes through the whole list and
\* returns what the last validator said
RECURSIVE ValidateLast(_, _, _)
ValidateLast(vs, path, i) ==
    IF i > Len(vs) THEN [ret |-> TRUE, evaluated |-> i - 1]
    ELSE IF i = Len(vs) THEN [ret |-> CallValidator(vs[i], path), evaluated |-> i]
    ELSE ValidateLast(vs, path, i + 1)

\* the loop of BaseHandler.validate from the i-th validator on: what it
\* returns and how many validators of the list have been called by then
RECURSIVE ValidateFrom(_, _, _)
ValidateFrom(vs, path, i) ==
    IF i > Len(vs) THEN [ret |-> TRUE, evaluated |-> i - 1]
    ELSE IF ~CallValidator(vs[i], path) THEN [ret |-> FALSE, evaluated |-> i]
    ELSE ValidateFrom(vs, path, i + 1)

\* a mutation of validate: every path passes
ValidatePasses(vs, path) == TRUE

\* BaseHandler.validate for the list vs
validate(vs, path) == ValidateFrom(vs, path, 1).ret

\* the list Console.__init__ builds from its validation flag
ConsoleValidators(validation) ==
    IF validation THEN <<"format_validator", "name_validator">> ELSE <<>>

--------------------------------------------------------------------------
(* The handlers and their backends                                        *)

LOCAL_HANDLER == "local handler"
SFTP_HANDLER == "sftp"
GDRIVE_HANDLER == "gdrive handler"
DROPBOX_HANDLER == "dropbox"

\* Console.HANDLERS
HANDLERS == {LOCAL_HANDLER, SFTP_HANDLER, GDRIVE_HANDLER, DROPBOX_HANDLER}

\* the backends addressed by path
PathBackends == {LOCAL_HANDLER, SFTP_HANDLER, DROPBOX_HANDLER}

\* the handlers whose backend is a file system
FileSystems == {LOCAL_HANDLER, SFTP_HANDLER}

\* the handler name a record's handler ("in" or "out") was registered under
KindOf(side) == IF side = "in" THEN args.input_handler ELSE args.output_handler

\* the location of a path string on backend h; the Dropbox handler puts a
\* "/" before a path that has none
KeyOf(h, p) ==
    IF h = DROPBOX_HANDLER /\ ~StartsWith(p, <<SL>>) THEN Norm(<<SL>> \o p) ELSE Norm(p)

\* the working directory and the root directory always exist
IsTop(k) == k = <<>> \/ k = <<<<SL>>>>

\* os.path.exists and stat follow a symbolic link: an entry of kind "link",
\* a link whose target is missing, is listed but does not exist
Exists(F, k) == IsTop(k) \/ (k \in DOMAIN F /\ F[k].kind # "link")
IsDir(F, k) == IsTop(k) \/ (k \in DOMAIN F /\ F[k].kind = "dir")
IsFile(F, k) == k \in DOMAIN F /\ F[k].kind = "file"

\* the entries directly inside directory k
ChildKeys(F, k) ==
    {c \in DOMAIN F : Len(c) = Len(k) + 1 /\ SubSeq(c, 1, Len(k)) = k}

\* the entries at or below k
Subtree(F, k) ==
    {c \in DOMAIN F : Len(c) >= Len(k) /\ SubSeq(c, 1, Len(k)) = k}

\* F without the keys of D
Without(F, D) == [c \in DOMAIN F \ D |-> F[c]]

--------------------------------------------------------------------------
(* The bounded universe: names, source trees, arguments                   *)

n_root == <<"r","o","o","t">>
n_dst == <<"d","s","t">>
n_a_txt == <<"a",".","t","x","t">>
n_sub == <<"s","u","b">>
n_b_txt == <<"b",".","t","x","t">>
n_x == <<"x">>
n_pycache == <<"_","_","p","y","c","a","c","h","e","_","_">>
n_c_pyc == <<"c",".","p","y","c">>
n_subroot == <<"s","u","b","r","o","o","t">>
n_link == <<"l","i","n","k">>
n_structure_json == <<"s","t","r","u","c","t","u","r","e",".","j","s","o","n">>

\* the entries a source tree is drawn from, relative to the input folder,
\* in the order the backend lists them (or the reverse of it)
Candidates ==
    << [rel |-> <<n_a_txt>>, kind |-> "file"],
       [rel |-> <<n_sub>>, kind |-> "dir"],
       [rel |-> <<n_sub, n_b_txt>>, kind |-> "file"],
       [rel |-> <<n_sub, n_x>>, kind |-> "dir"],
       [rel |-> <<n_pycache>>, kind |-> "dir"],
       [rel |-> <<n_pycache, n_c_pyc>>, kind |-> "file"],
       [rel |-> <<n_subroot>>, kind |-> "dir"],
       [rel |-> <<n_link>>, kind |-> "link"] >>

\* the most entries a source tree has
MaxEntries == 5

\* the most runs of Console.run on the same backends
MaxRuns == 2

\* the modification time of the source entries, the clock of the backends
\* when they create an entry, and the size of a source file
SrcTime == 1
Now == 2
SrcSize == 3

\* the identity of the Drive root folder
DriveRoot == 1

\* a set of candidate indices is a tree when it holds the parent of each
RelOf(i) == Candidates[i].rel
IsTree(S) ==
    \A i \in S : Len(RelOf(i)) > 1 =>
        \E j \in S : RelOf(j) = SubSeq(RelOf(i), 1, Len(RelOf(i)) - 1)
                       /\ Candidates[j].kind = "dir"
Shapes ==
    {S \in SUBSET (1..Len(Candidates)) : IsTree(S) /\ Cardinality(S) <= MaxEntries}

\* the shapes without a file
FolderShapes == {S \in Shapes : \A i \in S : Candidates[i].kind = "dir"}

\* a symbolic link is an entry of a file system only
Holds(h, S) == h \in FileSystems \/ \A i \in S : Candidates[i].kind # "link"

\* the names of the entries of S directly inside the input folder
TopNames(S) == {RelOf(i)[1] : i \in {j \in S : Len(RelOf(j)) = 1}}

r_root == n_root
r_slash_root == <<SL>> \o n_root
InputPaths == {r_root, r_slash_root}
OutputPaths == {n_dst}

\* the names Console may be given: the registered ones and one that is not
HandlerNames == HANDLERS \cup {"ftp"}

\* an entry of a path-addressed backend
Entry(kind, id) ==
    [kind |-> kind, mtime |-> SrcTime, id |-> id,
     size |-> IF kind = "file" THEN SrcSize ELSE 0]

\* the tree S under the folder at key k of a path-addressed backend
TreeAt(k, S) ==
    LET keys == {k} \cup {k \o RelOf(i) : i \in S}
        idx(c) == CHOOSE i \in S : k \o RelOf(i) = c
    IN  [c \in keys |->
            IF c = k THEN Entry("dir", DriveRoot + 1)
            ELSE Entry(Candidates[idx(c)].kind, DriveRoot + 1 + idx(c))]

\* the tree S under a folder named root of the Drive root folder
DriveTree(S) ==
    LET idOf(rel) == IF rel = <<>> THEN DriveRoot + 1
                     ELSE DriveRoot + 1 + (CHOOSE i \in S : RelOf(i) = rel)
    IN  {[id |-> DriveRoot + 1, name |-> n_root, parent |-> DriveRoot,
          folder |-> TRUE, mtime |-> SrcTime, size |-> 0]}
        \cup
        {[id |-> idOf(RelOf(i)),
          name |-> RelOf(i)[Len(RelOf(i))],
          parent |-> idOf(SubSeq(RelOf(i), 1, Len(RelOf(i)) - 1)),
          folder |-> Candidates[i].kind = "dir",
          mtime |-> SrcTime,
          size |-> IF Candidates[i].kind = "file" THEN SrcSize ELSE 0] : i \in S}

Empty == [c \in {} |-> 0]

\* no method of a handler has been called by a caller
NoCall ==
    [op |-> "none", side |-> "none", path |-> <<>>, exc |-> "none",
     stat |-> [id |-> 0, size |-> 0, modified |-> 0], ret |-> TRUE,
     evaluated |-> 0, dest |-> <<>>]

\* nothing of the program has run
Unstarted ==
    /\ phase = "new"
    /\ error = "none"
    /\ validators = [side \in {"in", "out"} |-> <<>>]
    /\ heap = <<>>
    /\ stack = <<>>
    /\ runs = 0
    /\ root = 0
    /\ result = 0
    /\ log = <<>>
    /\ attempts = <<>>
    /\ call = NoCall

\* the state before Console is built: the input backend holds the tree S
\* under the input path, every other backend is empty
Setup(S, ih, oh, ip, op, v, rev, direct, den) ==
    /\ args = [input_handler |-> ih, output_handler |-> oh, input_path |-> ip,
               output_path |-> op, validation |-> v, reversed |-> rev,
               direct |-> direct]
    /\ fs = [h \in PathBackends |-> IF h = ih THEN TreeAt(KeyOf(h, ip), S) ELSE Empty]
    /\ drive = IF ih = GDRIVE_HANDLER THEN DriveTree(S) ELSE {}
    /\ denied = den
    /\ fresh = DriveRoot + 2 + Len(Candidates)
    /\ Unstarted

\* the program started from the command line (direct FALSE), or its
\* classes used by a caller that builds the handlers itself (direct TRUE)
Init ==
    \E ih \in HandlerNames, oh \in HandlerNames, ip \in InputPaths,
       op \in OutputPaths, v \in BOOLEAN, rev \in BOOLEAN, direct \in BOOLEAN,
       S \in Shapes :
       \E den \in SUBSET ({n_sub, n_a_txt} \cap TopNames(S)) :
          /\ direct => {ih, oh} \subseteq HANDLERS
          /\ Holds(ih, S)
          /\ Setup(S, ih, oh, ip, op, v, rev, direct, den)

--------------------------------------------------------------------------
(* Records                                                                *)

\* Folder.__init__ with the stat it was given or looked up (set_stat)
NewFolder(side, path, base_path, stat) ==
    [cls |-> "Folder", handler |-> side, path |-> path, base_location |-> base_path,
     name |-> PathName(path), children |-> <<>>,
     id |-> stat.id, size |-> stat.size, modified |-> stat.modified]

\* whether `if folder.base_location:` takes the first branch
Truthy(opt) == opt # None /\ opt[1] # <<>>

\* the position of key in an ordered mapping, 0 when it is not a key
KeyIndex(children, key) ==
    IF \E i \in 1..Len(children) : children[i].key = key
    THEN CHOOSE i \in 1..Len(children) : children[i].key = key
    ELSE 0

\* self.children[key] = ref on a dict: a key that is there keeps its place
DictSet(children, key, ref) ==
    IF KeyIndex(children, key) = 0
    THEN Append(children, [key |-> key, ref |-> ref])
    ELSE [children EXCEPT ![KeyIndex(children, key)].ref = ref]

\* Folder.add_child on the heap h: folder gets record under record.path
add_child(h, folder, record) ==
    [h EXCEPT ![folder].children = DictSet(@, h[record].path, record)]

--------------------------------------------------------------------------
(* Stat                                                                   *)

TheOne(S) == CHOOSE o \in S : TRUE

Ok(stat) == [exc |-> "none", stat |-> stat]
Raise(exc) == [exc |-> exc, stat |-> [id |-> 0, size |-> 0, modified |-> 0]]

StatOf(F, k) ==
    IF IsTop(k) THEN [id |-> DriveRoot, size |-> 0, modified |-> SrcTime]
    ELSE [id |-> F[k].id, size |-> F[k].size, modified |-> F[k].mtime]

\* a mutation of DriveFind: the query finds nothing
DriveFindNothing(D, p, n) == {}

\* the records the Drive query "name = n and p in parents" returns
DriveFind(D, p, n) == {r \in D : r.parent = p /\ r.name = n}

\* LocalHandler.get_folder_stat
LocalFolderStat(F, path) ==
    LET k == Norm(path)
    IN  IF path = <<>> \/ ~Exists(F, k) THEN {Raise("RecordNotFoundException")}
        ELSE IF ~IsDir(F, k) THEN {Raise("NotFolderException")}
        ELSE {Ok(StatOf(F, k))}

\* SFTPHandler.get_folder_stat: the kind is only logged; CONNECTION.stat
\* raises FileNotFoundError for a missing path; the stat holds no id
SftpStat(F, path) ==
    LET k == Norm(path)
    IN  IF path = <<>> \/ ~Exists(F, k) THEN {Raise("FileNotFoundError")}
        ELSE {Ok([StatOf(F, k) EXCEPT !.id = 0])}

\* DropBoxHandler.get_folder_stat
DropboxFolderStat(F, path) ==
    LET k == KeyOf(DROPBOX_HANDLER, path)
    IN  IF path = <<>> \/ path = <<SL>>
        THEN {Ok([id |-> 0, size |-> 0, modified |-> 0])}
        ELSE IF IsTop(k) \/ ~Exists(F, k) THEN {Raise("RecordNotFoundException")}
        ELSE IF IsFile(F, k) THEN {Raise("NotFolderException")}
        ELSE {Ok([id |-> F[k].id, size |-> 0, modified |-> 0])}

\* GDriveHandler.get_folder_stat: every segment of the path is looked up
\* under the root folder (root_id is never advanced), and the records found
\* for the last segment decide; their kind is not looked at
DriveFolderStat(D, path) ==
    LET names == Split(path, SL)
        found == DriveFind(D, DriveRoot, names[Len(names)])
    IN  IF found = {} THEN {Raise("RecordNotFoundException")}
        ELSE {Ok([id |-> r.id, size |-> 0, modified |-> r.mtime]) : r \in found}

\* LocalHandler.get_file_stat
LocalFileStat(F, path) ==
    LET k == Norm(path)
    IN  IF path = <<>> \/ ~Exists(F, k) THEN {Raise("RecordNotFoundException")}
        ELSE IF ~IsFile(F, k) THEN {Raise("NotFileException")}
        ELSE {Ok(StatOf(F, k))}

\* DropBoxHandler.get_file_stat: the path goes to files_get_metadata as it
\* is; the Dropbox client refuses a path without a leading "/" with a
\* ValidationError, which is no DropboxException
DropboxFileStat(F, path) ==
    LET k == Norm(path)
    IN  IF ~StartsWith(path, <<SL>>) THEN {Raise("ValidationError")}
        ELSE IF IsTop(k) \/ ~Exists(F, k) THEN {Raise("RecordNotFoundException")}
        ELSE IF IsDir(F, k) THEN {Raise("NotFileException")}
        ELSE {Ok(StatOf(F, k))}

get_folder_stat(h, path) ==
    IF h = LOCAL_HANDLER THEN LocalFolderStat(fs[h], path)
    ELSE IF h = SFTP_HANDLER THEN SftpStat(fs[h], path)
    ELSE IF h = DROPBOX_HANDLER THEN DropboxFolderStat(fs[h], path)
    ELSE DriveFolderStat(drive, path)

\* GDriveHandler.get_file_stat: the folder of the file is looked up with
\* get_folder_stat, the records of the file's name in it are listed and the
\* first one is taken, whatever its kind
DriveFileStat(D, path) ==
    LET names == Split(path, SL)
        file_name == names[Len(names)]
        location == Join(SubSeq(names, 1, Len(names) - 1))
        roots == IF location # <<>> THEN DriveFolderStat(D, location)
                 ELSE {Ok([id |-> DriveRoot, size |-> 0, modified |-> 0])}
        InFolder(o) ==
            IF o.exc # "none" THEN {o}
            ELSE IF DriveFind(D, o.stat.id, file_name) = {}
            THEN {Raise("RecordNotFoundException")}
            ELSE {Ok([id |-> r.id, size |-> r.size, modified |-> r.mtime]) :
                     r \in DriveFind(D, o.stat.id, file_name)}
    IN  UNION {InFolder(o) : o \in roots}

\* handler.get_file_stat(path) for the handler registered as h: the set of
\* its possible outcomes (SFTPHandler.get_file_stat does what its
\* get_folder_stat does)
get_file_stat(h, path) ==
    IF h = LOCAL_HANDLER THEN LocalFileStat(fs[h], path)
    ELSE IF h = SFTP_HANDLER THEN SftpStat(fs[h], path)
    ELSE IF h = DROPBOX_HANDLER THEN DropboxFileStat(fs[h], path)
    ELSE DriveFileStat(drive, path)

\* the Drive records the path of names leads to from the folders ids
RECURSIVE DriveResolve(_, _, _)
DriveResolve(D, names, ids) ==
    IF names = <<>> THEN {r \in D : r.id \in ids}
    ELSE LET next == {r \in D : r.parent \in ids /\ r.name = Head(names)}
         IN  IF Len(names) = 1 THEN next
             ELSE DriveResolve(D, Tail(names), {r.id : r \in next})

\* what there is at path on the backend of handler h: "file", "dir" or
\* "none"
KindAt(h, path) ==
    IF h = GDRIVE_HANDLER
    THEN LET found == DriveResolve(drive, NonEmpty(Split(path, SL)), {DriveRoot})
         IN  IF found = {} THEN "none"
             ELSE IF \E r \in found : r.folder THEN "dir" ELSE "file"
    ELSE IF IsDir(fs[h], KeyOf(h, path)) THEN "dir"
    ELSE IF IsFile(fs[h], KeyOf(h, path)) THEN "file"
    ELSE "none"

--------------------------------------------------------------------------
(* Reading and writing a file                                             *)

\* the record of a file as a caller hands it to a handler, with the
\* attributes the methods of the handlers read: path, name, id, modified
FileArg(h, path) ==
    LET found == DriveResolve(drive, NonEmpty(Split(path, SL)), {DriveRoot})
    IN  [path |-> path, name |-> PathName(path), modified |-> SrcTime,
         id |-> IF h = GDRIVE_HANDLER /\ found # {} THEN (TheOne(found)).id ELSE 0]

\* the bytes read, as their number, or the exception raised
Read(exc, size) == [exc |-> exc, size |-> size]

\* LocalHandler.get_file_content: open(file.path, "rb") raises
\* FileNotFoundError, PermissionError or, for a directory,
\* IsADirectoryError; the except clause names the first two
LocalFileContent(F, file) ==
    LET k == Norm(file.path)
    IN  IF file.path = <<>> \/ ~Exists(F, k) THEN Read("UnableToAccessException", 0)
        ELSE IF IsDir(F, k) THEN Read("IsADirectoryError", 0)
        ELSE IF file.name \in denied THEN Read("UnableToAccessException", 0)
        ELSE Read("none", F[k].size)

\* SFTPHandler.get_file_content: every OSError becomes
\* UnableToAccessException
SftpFileContent(F, file) ==
    LET k == Norm(file.path)
    IN  IF ~IsFile(F, k) \/ file.name \in denied
        THEN Read("UnableToAccessException", 0)
        ELSE Read("none", F[k].size)

\* DropBoxHandler.get_file_content: a DropboxException of files_download
\* becomes RecordNotFoundException
DropboxFileContent(F, file) ==
    LET k == Norm(file.path)
    IN  IF ~StartsWith(file.path, <<SL>>) THEN Read("ValidationError", 0)
        ELSE IF ~IsFile(F, k) \/ file.name \in denied
        THEN Read("RecordNotFoundException", 0)
        ELSE Read("none", F[k].size)

\* GDriveHandler.get_file_content: get_media(fileId=file.id) only builds
\* the request, inside the try; the download, next_chunk(), stands after
\* the try, and its HttpError leaves the method as it is
DriveFileContent(D, file) ==
    LET found == {r \in D : r.id = file.id /\ ~r.folder}
    IN  IF found = {} \/ file.name \in denied THEN Read("HttpError", 0)
        ELSE Read("none", (TheOne(found)).size)

\* handler.get_file_content(file) for the handler registered as h
get_file_content(h, file) ==
    IF h = LOCAL_HANDLER THEN LocalFileContent(fs[h], file)
    ELSE IF h = SFTP_HANDLER THEN SftpFileContent(fs[h], file)
    ELSE IF h = DROPBOX_HANDLER THEN DropboxFileContent(fs[h], file)
    ELSE DriveFileContent(drive, file)

--------------------------------------------------------------------------
(* Listing a folder                                                       *)

\* the order in which the backends list names
NameOrder ==
    <<n_a_txt, n_link, n_sub, n_b_txt, n_x, n_pycache, n_c_pyc, n_subroot, n_root, n_dst>>

NameRank(n) ==
    IF \E i \in 1..Len(NameOrder) : NameOrder[i] = n
    THEN CHOOSE i \in 1..Len(NameOrder) : NameOrder[i] = n
    ELSE Len(NameOrder) + 1

\* the elements e of a set of [rank, e] pairs by ascending rank
RECURSIVE Ascending(_)
Ascending(S) ==
    IF S = {} THEN <<>>
    ELSE LET m == CHOOSE p \in S : \A o \in S : p.rank <= o.rank
         IN  <<m.e>> \o Ascending(S \ {m})

Reverse(q) == [i \in 1..Len(q) |-> q[Len(q) + 1 - i]]

\* the order a backend returns a listing in: the order of names or, in a
\* run whose backends list the other way round, its reverse
Listing(R) ==
    IF args.reversed THEN Reverse(Ascending(R)) ELSE Ascending(R)

LastOf(k) == k[Len(k)]
KeyRank(k) == NameRank(LastOf(k))
IdRank(r) == r.id
KeyRanked(S) == {[rank |-> KeyRank(e), e |-> e] : e \in S}
IdRanked(S) == {[rank |-> IdRank(e), e |-> e] : e \in S}

\* the call File(...): File leaves the abstract method set_stat of
\* BaseRecord undefined, so Python refuses to build an instance of it
File == "TypeError"

Content(recs) == [exc |-> "none", recs |-> recs]
ContentRaise(exc) == [exc |-> exc, recs |-> <<>>]

\* whether `except (UnableToAccessException, RecordNotFoundException)` in
\* the loop of get_folder_content of the local and sftp handlers catches exc
ListingCatches(exc) == exc \in {"UnableToAccessException", "RecordNotFoundException"}

\* a mutation of Inherited: the Folder of an entry gets the path of the
\* folder it was listed in as its base_path
InheritedPath(folder) == Some(folder.path)

\* the base_path get_folder_content gives the Folder of an entry
Inherited(folder) == folder.base_location

\* the loop of LocalHandler.get_folder_content and
\* SFTPHandler.get_folder_content from the i-th validated name on: a file
\* ends the call with the exception of File(...); any other entry is built
\* as a Folder, and an exception of its stat that the except clause names
\* drops the entry, any other exception ends the call
RECURSIVE PathRecords(_, _, _, _)
PathRecords(side, folder, kept, i) ==
    IF i > Len(kept) THEN Content(<<>>)
    ELSE
    LET record_path == folder.path \o <<SL>> \o LastOf(kept[i])
        o == TheOne(get_folder_stat(KindOf(side), record_path))
        rest == PathRecords(side, folder, kept, i + 1)
    IN  IF IsFile(fs[KindOf(side)], kept[i]) THEN ContentRaise(File)
        ELSE IF o.exc # "none"
        THEN IF ListingCatches(o.exc) THEN rest ELSE ContentRaise(o.exc)
        ELSE IF rest.exc # "none" THEN rest
        ELSE Content(<<NewFolder(side, record_path, Inherited(folder), o.stat)>>
                     \o rest.recs)

\* LocalHandler.get_folder_content and SFTPHandler.get_folder_content: the
\* names of the listing are validated, then built into records in the
\* order of the listing
PathContent(side, folder) ==
    LET F == fs[KindOf(side)]
        k == Norm(folder.path)
        vs == validators[side]
        Valid(c) == validate(vs, LastOf(c))
        kept == SelectSeq(Listing(KeyRanked(ChildKeys(F, k))), Valid)
    IN  IF folder.path = <<>> \/ ~IsDir(F, k) THEN ContentRaise("FileNotFoundError")
        ELSE PathRecords(side, folder, kept, 1)

\* entry.path_display of the Dropbox entry at key c
PathDisplay(c) == <<SL>> \o Join(Tail(c))

\* DropBoxHandler.get_folder_content: the whole path_display of an entry is
\* validated
DropboxContent(side, folder) ==
    LET F == fs[DROPBOX_HANDLER]
        k == KeyOf(DROPBOX_HANDLER, folder.path)
        vs == validators[side]
        Valid(c) == validate(vs, PathDisplay(c))
        kept == SelectSeq(Listing(KeyRanked(ChildKeys(F, k))), Valid)
        Record(c) ==
            NewFolder(side, PathDisplay(c), Inherited(folder),
                      TheOne(DropboxFolderStat(F, PathDisplay(c))).stat)
    IN  IF folder.path # <<>> /\ ~StartsWith(folder.path, <<SL>>)
        THEN ContentRaise("ValidationError")
        ELSE IF ~IsDir(F, k) THEN ContentRaise("ApiError")
        ELSE IF \E i \in 1..Len(kept) : IsFile(F, kept[i]) THEN ContentRaise(File)
        ELSE Content([i \in 1..Len(kept) |-> Record(kept[i])])

\* GDriveHandler.get_folder_content: no entry is validated; a folder is
\* built from the listing's metadata
DriveContent(side, folder) ==
    LET listed == Listing(IdRanked({r \in drive : r.parent = folder.id}))
        Record(r) ==
            NewFolder(side, folder.path \o <<SL>> \o r.name, Inherited(folder),
                      [id |-> r.id, size |-> r.size, modified |-> r.mtime])
    IN  IF \E i \in 1..Len(listed) : ~listed[i].folder
        THEN ContentRaise(File)
        ELSE Content([i \in 1..Len(listed) |-> Record(listed[i])])

\* handler.get_folder_content(folder) of the folder's own handler
get_folder_content(folder) ==
    LET h == KindOf(folder.handler)
    IN  IF h \in {LOCAL_HANDLER, SFTP_HANDLER} THEN PathContent(folder.handler, folder)
        ELSE IF h = DROPBOX_HANDLER THEN DropboxContent(folder.handler, folder)
        ELSE DriveContent(folder.handler, folder)

--------------------------------------------------------------------------
(* Materializing the destination folder                                   *)

DirEntry(mtime, id) == [kind |-> "dir", mtime |-> mtime, id |-> id, size |-> 0]

Event(op, h, k) == [op |-> op, backend |-> h, key |-> k]

\* os.makedirs(path) of the local handler and CONNECTION.makedirs(path) of
\* the sftp handler, from the i-th prefix of the location k on: a missing
\* directory is made unless its parent is a file or making it is denied;
\* os.makedirs raises FileExistsError when the last one exists, pysftp's
\* makedirs accepts an existing directory and raises OSError for a file
RECURSIVE Makedirs(_, _, _, _, _)
Makedirs(h, F, k, i, id) ==
    LET pre == SubSeq(k, 1, i)
        last == i = Len(k)
        Done(exc, G, n) == [exc |-> exc, F |-> G, id |-> n]
    IN  IF k = <<>> THEN Done("OSError", F, id)
        ELSE IF Exists(F, pre)
        THEN IF ~last THEN Makedirs(h, F, k, i + 1, id)
             ELSE IF h = LOCAL_HANDLER THEN Done("FileExistsError", F, id)
             ELSE IF IsDir(F, pre) THEN Done("none", F, id)
             ELSE Done("OSError", F, id)
        ELSE IF (i > 1 /\ IsFile(F, SubSeq(k, 1, i - 1))) \/ LastOf(pre) \in denied
        THEN Done("OSError", F, id)
        ELSE LET G == (pre :> DirEntry(Now, id)) @@ F
             IN  IF last THEN Done("none", G, id + 1)
                 ELSE Makedirs(h, G, k, i + 1, id + 1)

\* the keys of G that F has not, shortest first
Made(F, G) ==
    Ascending({[rank |-> Len(k), e |-> k] : k \in DOMAIN G \ DOMAIN F})

\* what the part of upload_folder before its loop leaves behind
Prepared(exc, F, id, base, dest, obj, events) ==
    [exc |-> exc, F |-> F, id |-> id, base |-> base, dest |-> dest, obj |-> obj,
     events |-> events]

NoObject == [cls |-> "None"]

\* a mutation of DestinationFolder: the record keeps the handler of the
\* source folder
DestinationFolderOfSource(path, stat) == NewFolder("in", path, None, stat)

\* Folder(new_folder_path, self, stat) of upload_folder: the record of the
\* destination folder belongs to the handler that uploads
DestinationFolder(path, stat) == NewFolder("out", path, None, stat)

\* folder.path.replace(folder.base_location, "")
RelativePath(folder) == Replace(folder.path, folder.base_location[1], <<>>)

\* a mutation of MakedirsFails: `except OSError` stands first and catches
\* FileExistsError, a subclass of OSError, too
MakedirsFailsOnExisting(exc) == exc \in {"OSError", "FileExistsError"}

\* the except clauses around makedirs: FileExistsError is passed over, any
\* other OSError becomes UnableToAccessException
MakedirsFails(exc) == exc = "OSError"

\* LocalHandler.upload_folder and SFTPHandler.upload_folder up to the loop
\* over the children, for the handler registered as h
PathUploadFolderHead(h, F, id, folder, new_folder_path) ==
    IF ~Truthy(folder.base_location)
    THEN Prepared("NoBasePathSpecifiedException", F, id, <<>>, <<>>, NoObject, <<>>)
    ELSE
    LET new_base_folder_path == new_folder_path
        dest == new_folder_path \o RelativePath(folder)
        k == Norm(dest)
        m == Makedirs(h, F, k, 1, id)
        \* os.utime / sftp_client.utime follow a makedirs that did not raise
        G == IF m.exc = "none" /\ k \in DOMAIN m.F
             THEN [m.F EXCEPT ![k].mtime = folder.modified]
             ELSE m.F
        events == [i \in 1..Len(Made(F, G)) |-> Event("mkdir", h, Made(F, G)[i])]
        st == TheOne(IF h = LOCAL_HANDLER THEN LocalFolderStat(G, dest)
                     ELSE SftpStat(G, dest))
    IN  IF MakedirsFails(m.exc)
        THEN Prepared("UnableToAccessException", G, m.id, new_base_folder_path, dest,
                  NoObject, events)
        ELSE IF st.exc # "none"
        THEN Prepared(st.exc, G, m.id, new_base_folder_path, dest, NoObject, events)
        ELSE Prepared("none", G, m.id, new_base_folder_path, dest,
                  DestinationFolder(dest, st.stat), events)

\* a mutation of DeleteKey: files_delete_v2 is called on the base location
\* of the folder
DeleteKeyBase(folder) == KeyOf(DROPBOX_HANDLER, folder.base_location[1])

\* the location files_delete_v2 is called on by DropBoxHandler.upload_folder
DeleteKey(folder) == KeyOf(DROPBOX_HANDLER, folder.path)

\* DropBoxHandler.upload_folder up to the loop over the children: the
\* object at the source folder's own path is deleted, then the base
\* location is checked, then a folder is created at the source folder's
\* own path; the record gets the destination path; the path handed to the
\* children is the destination path, not the path the call was given
DropboxUploadFolderHead(F, id, folder, new_folder_path) ==
    LET h == DROPBOX_HANDLER
        k == KeyOf(h, folder.path)
        dk == DeleteKey(folder)
        deleted == ~IsTop(dk) /\ Exists(F, dk)
        F1 == IF deleted THEN Without(F, Subtree(F, dk)) ELSE F
        ev1 == IF deleted THEN <<Event("delete", h, dk)>> ELSE <<>>
        dest == new_folder_path \o RelativePath(folder)
        blocked == \/ IsTop(k)
                   \/ Exists(F1, k)
                   \/ \E i \in 1..(Len(k) - 1) : IsFile(F1, SubSeq(k, 1, i))
                   \/ LastOf(k) \in denied
        missing == {SubSeq(k, 1, i) : i \in 1..Len(k)} \ {c \in DOMAIN F1 : TRUE}
        created == {c \in missing : ~IsTop(c)}
        F2 == [c \in DOMAIN F1 \cup created |->
                  IF c \in DOMAIN F1 THEN F1[c]
                  ELSE DirEntry(Now, IF c = k THEN id ELSE id + Len(k) - Len(c))]
        ev2 == [i \in 1..Len(Made(F1, F2)) |-> Event("create", h, Made(F1, F2)[i])]
    IN  IF ~Truthy(folder.base_location)
        THEN Prepared("NoBasePathSpecifiedException", F1, id, <<>>, <<>>, NoObject, ev1)
        ELSE IF blocked
        THEN Prepared("ApiError", F1, id, <<>>, dest, NoObject, ev1)
        ELSE Prepared("none", F2, id + Len(k), dest, dest,
                  DestinationFolder(dest, [id |-> id, size |-> 0, modified |-> Now]),
                  ev1 \o ev2)

--------------------------------------------------------------------------
(* The call stack                                                         *)

\* a running call: content and i are the list and the position of its
\* loop, base the path it hands to its recursive calls, new_folder the
\* Folder it has produced, got the records its recursive calls returned
Frame(op, self, base) ==
    [op |-> op, self |-> self, pc |-> IF op = "set_content" THEN "list" ELSE "create",
     content |-> <<>>, i |-> 1, base |-> base, dest |-> <<>>, new_folder |-> 0,
     segs |-> <<>>, got |-> <<>>]

Top == stack[Len(stack)]
Callers == SubSeq(stack, 1, Len(stack) - 1)
WithTop(f) == Append(Callers, f)

Running(op, pc) ==
    phase \in {"enumerate", "copy"} /\ stack # <<>> /\ Top.op = op /\ Top.pc = pc

\* an exception leaves Console.run: nothing catches it; the stack stays as
\* the traceback of the exception
Crash(exc) ==
    /\ phase' = "crashed"
    /\ error' = exc
    /\ UNCHANGED stack

\* a mutation of Caught: the loop catches every exception of the program
CaughtAny(exc) ==
    exc \in {"UnableToAccessException", "NoBasePathSpecifiedException"}

\* a mutation of Caught: no loop of upload_folder has a try
CaughtNothing(exc) == FALSE

\* whether `except UnableToAccessException` around the body of the loop of
\* upload_folder catches exc; DropBoxHandler.upload_folder has no try
Caught(exc) ==
    exc = "UnableToAccessException" /\ args.output_handler # DROPBOX_HANDLER

\* a mutation of Thrown: the loop that caught the exception takes the
\* same child again
ThrownRetries(exc) ==
    IF Caught(exc) /\ Len(stack) >= 2
    THEN /\ stack' = SubSeq(stack, 1, Len(stack) - 1)
         /\ UNCHANGED <<phase, error>>
    ELSE Crash(exc)

\* exc raised by a call of upload_folder before its loop: the loop of the
\* calling upload_folder, when there is one, catches it and goes on with
\* its next child
Thrown(exc) ==
    IF Caught(exc) /\ Len(stack) >= 2
    THEN /\ stack' = Append(SubSeq(stack, 1, Len(stack) - 2),
                            [stack[Len(stack) - 1] EXCEPT !.i = @ + 1])
         /\ UNCHANGED <<phase, error>>
    ELSE Crash(exc)

--------------------------------------------------------------------------
(* Console                                                                *)

\* the call handler_class(validators) of a class registered in HANDLERS:
\* each of the four classes leaves the abstract method dump_file_structure
\* of BaseHandler undefined, so Python refuses to build an instance of it
HandlerClassCall == "TypeError"

\* a mutation of BothRegistered: only the class of the input handler is
\* looked at
RegisteredInput == args.input_handler \in HANDLERS

\* `not input_handler_cls or not output_handler_cls` is false: HANDLERS.get
\* found a class for both names
BothRegistered == args.input_handler \in HANDLERS /\ args.output_handler \in HANDLERS

\* Console.__init__
ConsoleInit ==
    /\ phase = "new"
    /\ ~args.direct
    /\ IF ~BothRegistered
       THEN Crash("Exception")
       ELSE Crash(HandlerClassCall)
    /\ UNCHANGED <<args, attempts, call, validators, fs, denied, drive, heap, fresh, runs, root, result,
                   log>>

\* the handlers built by a caller of the classes, each through a subclass
\* that defines dump_file_structure and nothing else, with the validator
\* list Console would give them (BaseHandler.__init__, set_validators)
Construct ==
    /\ phase = "new"
    /\ args.direct
    /\ phase' = "ready"
    /\ validators' = [side \in {"in", "out"} |-> ConsoleValidators(args.validation)]
    /\ UNCHANGED <<args, attempts, call, error, stack, fs, denied, drive, heap, fresh, runs, root,
                   result, log>>

\* the statements of Console.run up to set_content, on the handlers the
\* caller built: the input Folder is built (the log gets the mark of a
\* new run)
RunStart ==
    /\ phase \in {"ready", "done"}
    /\ runs < MaxRuns
    /\ runs' = runs + 1
    /\ result' = 0
    /\ attempts' = <<>>
    /\ log' = Append(log, Event("run", args.input_handler, <<>>))
    /\ \E o \in get_folder_stat(args.input_handler, args.input_path) :
          IF o.exc # "none"
          THEN Crash(o.exc) /\ UNCHANGED <<heap, root>>
          ELSE /\ heap' = <<NewFolder("in", args.input_path, Some(args.input_path),
                                      o.stat)>>
               /\ root' = 1
               /\ stack' = <<Frame("set_content", 1, <<>>)>>
               /\ phase' = "enumerate"
               /\ error' = "none"
    /\ UNCHANGED <<args, call, validators, fs, denied, drive, fresh>>

\* Folder.set_content: content = self.handler.get_folder_content(self)
GetFolderContent ==
    /\ Running("set_content", "list")
    /\ LET o == get_folder_content(heap[Top.self])
       IN  IF o.exc # "none"
           THEN Crash(o.exc) /\ UNCHANGED heap
           ELSE /\ heap' = heap \o o.recs
                /\ stack' = WithTop([Top EXCEPT
                                !.content = [i \in 1..Len(o.recs) |-> Len(heap) + i],
                                !.pc = "loop"])
                /\ UNCHANGED <<phase, error>>
    /\ UNCHANGED <<args, attempts, call, validators, fs, denied, drive, fresh, runs, root, result, log>>

\* Folder.set_content: one turn of the loop, add_child(record) and the call
\* record.set_content() of a Folder; every record of a content is a Folder
SetContentNext ==
    /\ Running("set_content", "loop")
    /\ Top.i <= Len(Top.content)
    /\ LET record == Top.content[Top.i]
       IN  /\ heap' = add_child(heap, Top.self, record)
           /\ stack' = Append(WithTop([Top EXCEPT !.i = @ + 1]),
                              Frame("set_content", record, <<>>))
           /\ UNCHANGED <<phase, error>>
    /\ UNCHANGED <<args, attempts, call, validators, fs, denied, drive, fresh, runs, root, result, log>>

\* a mutation of SetContentReturn: the loop of set_content does not end
SetContentStays ==
    /\ Running("set_content", "loop")
    /\ Top.i > Len(Top.content)
    /\ UNCHANGED vars

\* Folder.set_content returns
SetContentReturn ==
    /\ Running("set_content", "loop")
    /\ Top.i > Len(Top.content)
    /\ stack' = Callers
    /\ UNCHANGED <<args, attempts, call, phase, error, validators, fs, denied, drive, heap, fresh, runs,
                   root, result, log>>

\* Console.run: input_folder.copy(output_path, output_handler, True), which
\* is output_handler.upload_folder(input_folder, output_path, True)
CopyStart ==
    /\ phase = "enumerate"
    /\ stack = <<>>
    /\ phase' = "copy"
    /\ stack' = <<Frame("upload_folder", root, args.output_path)>>
    /\ attempts' = <<root>>
    /\ UNCHANGED <<args, call, error, validators, fs, denied, drive, heap, fresh, runs, root,
                   result, log>>

--------------------------------------------------------------------------
(* upload_folder                                                          *)

\* LocalHandler, SFTPHandler and DropBoxHandler.upload_folder up to the loop
UploadFolderCreate ==
    /\ phase = "copy"
    /\ Running("upload_folder", "create")
    /\ args.output_handler \in PathBackends
    /\ LET h == args.output_handler
           r == IF h = DROPBOX_HANDLER
                THEN DropboxUploadFolderHead(fs[h], fresh, heap[Top.self], Top.base)
                ELSE PathUploadFolderHead(h, fs[h], fresh, heap[Top.self], Top.base)
       IN  /\ fs' = [fs EXCEPT ![h] = r.F]
           /\ fresh' = r.id
           /\ log' = log \o r.events
           /\ IF r.exc # "none"
              THEN Thrown(r.exc) /\ UNCHANGED heap
              ELSE /\ heap' = Append(heap, r.obj)
                   /\ stack' = WithTop([Top EXCEPT !.pc = "loop", !.base = r.base,
                                           !.dest = r.dest,
                                           !.new_folder = Len(heap) + 1])
                   /\ UNCHANGED <<phase, error>>
    /\ UNCHANGED <<args, attempts, call, validators, denied, drive, runs, root, result>>

\* GDriveHandler.upload_folder up to the loop over the segments of the
\* destination path
DriveUploadFolderStart ==
    /\ phase = "copy"
    /\ Running("upload_folder", "create")
    /\ args.output_handler = GDRIVE_HANDLER
    /\ LET folder == heap[Top.self]
           prev_folder_path == Top.base
           new_folder_path == prev_folder_path \o RelativePath(folder)
       IN  IF ~Truthy(folder.base_location)
           THEN Thrown("NoBasePathSpecifiedException")
           ELSE /\ stack' = WithTop([Top EXCEPT !.pc = "segments",
                                           !.dest = new_folder_path,
                                           !.segs = Split(new_folder_path, SL),
                                           !.new_folder = 0])
                /\ UNCHANGED <<phase, error>>
    /\ UNCHANGED <<args, attempts, call, validators, fs, denied, drive, heap, fresh, runs, root,
                   result, log>>

\* GDriveHandler._create_folder(folder_path, new_folder) for the next
\* segment: a record of that name under the parent is reused, whichever the
\* query returns first, otherwise a folder is created
DriveCreateFolder ==
    /\ Running("upload_folder", "segments")
    /\ LET folder_name == Top.segs[1]
           parent == Top.new_folder
           parent_id == IF parent = 0 THEN DriveRoot ELSE heap[parent].id
           location == IF parent = 0 THEN <<>> ELSE heap[parent].path
           found == DriveFind(drive, parent_id, folder_name)
           Built(id) ==
               /\ heap' = Append(heap, DestinationFolder(location \o <<SL>> \o folder_name,
                                   [id |-> id, size |-> 0, modified |-> 0]))
               /\ stack' = WithTop([Top EXCEPT
                                !.segs = Tail(@),
                                !.new_folder = Len(heap) + 1,
                                !.pc = IF Len(Top.segs) = 1 THEN "loop" ELSE "segments"])
               /\ UNCHANGED <<phase, error>>
       IN  IF found # {}
           THEN /\ \E r \in found : Built(r.id)
                /\ UNCHANGED <<drive, fresh, log>>
           ELSE IF folder_name \in denied
           THEN /\ Thrown("UnableToAccessException")
                /\ UNCHANGED <<drive, fresh, log, heap>>
           ELSE /\ drive' = drive \cup
                        {[id |-> fresh, name |-> folder_name, parent |-> parent_id,
                          folder |-> TRUE, mtime |-> Now, size |-> 0]}
                /\ fresh' = fresh + 1
                /\ log' = Append(log, Event("create", GDRIVE_HANDLER,
                                            <<parent_id, folder_name>>))
                /\ Built(fresh)
    /\ UNCHANGED <<args, attempts, call, validators, fs, denied, runs, root, result>>

\* one turn of the loop of upload_folder over folder.children.items(): a
\* child that is validated is a Folder, as no File object is ever built
UploadChild ==
    /\ Running("upload_folder", "loop")
    /\ Top.i <= Len(heap[Top.self].children)
    /\ LET path == heap[Top.self].children[Top.i].key
           record == heap[Top.self].children[Top.i].ref
       IN  IF ~validate(validators["out"], path)
           THEN /\ stack' = WithTop([Top EXCEPT !.i = @ + 1])
                /\ UNCHANGED <<phase, error, attempts>>
           ELSE /\ stack' = Append(stack, Frame("upload_folder", record, Top.base))
                /\ attempts' = Append(attempts, record)
                /\ UNCHANGED <<phase, error>>
    /\ UNCHANGED <<args, call, validators, fs, denied, drive, heap, fresh, runs, root,
                   result, log>>

\* upload_folder returns new_folder: the calling loop adds it to its own
\* new_folder; the top-level call returns it to Console.run
UploadReturn ==
    /\ Running("upload_folder", "loop")
    /\ Top.i > Len(heap[Top.self].children)
    /\ IF Len(stack) = 1
       THEN /\ stack' = <<>>
            /\ result' = Top.new_folder
            /\ phase' = "done"
            /\ UNCHANGED heap
       ELSE LET caller == stack[Len(stack) - 1]
            IN  /\ heap' = add_child(heap, caller.new_folder, Top.new_folder)
                /\ stack' = Append(SubSeq(stack, 1, Len(stack) - 2),
                                   [caller EXCEPT !.i = @ + 1,
                                                  !.got = Append(@, Top.new_folder)])
                /\ UNCHANGED <<result, phase>>
    /\ UNCHANGED <<args, attempts, call, error, validators, fs, denied, drive, fresh, runs, root, log>>

Next ==
    \/ ConsoleInit
    \/ Construct
    \/ RunStart
    \/ GetFolderContent
    \/ SetContentNext
    \/ SetContentReturn
    \/ CopyStart
    \/ UploadFolderCreate
    \/ DriveUploadFolderStart
    \/ DriveCreateFolder
    \/ UploadChild
    \/ UploadReturn

Spec == Init /\ [][Next]_vars

\* the lists a caller installs on the output handler after the source tree
\* was enumerated
FilterLists ==
    {<<"caller_validator">>, <<"format_validator", "name_validator", "caller_validator">>}

\* output_handler.set_validators(*vs) between input_folder.set_content()
\* and input_folder.copy(...)
SetOutputValidators ==
    /\ phase = "enumerate"
    /\ stack = <<>>
    /\ \E vs \in FilterLists :
          /\ validators["out"] # vs
          /\ validators' = [validators EXCEPT !["out"] = vs]
    /\ UNCHANGED <<args, attempts, call, phase, error, fs, denied, drive, heap, stack, fresh,
                   runs, root, result, log>>

NextFilter == Next \/ SetOutputValidators

SpecFilter == Init /\ [][NextFilter]_vars

\* before the backends and the command line are chosen
InitFair ==
    /\ args = [input_handler |-> LOCAL_HANDLER, output_handler |-> LOCAL_HANDLER,
               input_path |-> <<>>, output_path |-> <<>>, validation |-> FALSE,
               reversed |-> FALSE, direct |-> TRUE]
    /\ fs = [h \in PathBackends |-> Empty]
    /\ drive = {}
    /\ denied = {}
    /\ fresh = 0
    /\ validators = [side \in {"in", "out"} |-> <<>>]
    /\ heap = <<>> /\ stack = <<>> /\ log = <<>> /\ attempts = <<>>
    /\ runs = 0 /\ root = 0 /\ result = 0
    /\ error = "none"
    /\ call = NoCall
    /\ phase = "unset"

\* the backends and the command line are chosen as in Init
Configure ==
    /\ phase = "unset"
    /\ phase' = "new"
    /\ \E ih \in HandlerNames, oh \in HandlerNames, ip \in InputPaths,
          op \in OutputPaths, v \in BOOLEAN, rev \in BOOLEAN, direct \in BOOLEAN,
          S \in Shapes :
          \E den \in SUBSET ({n_sub, n_a_txt} \cap TopNames(S)) :
             /\ direct => {ih, oh} \subseteq HANDLERS
             /\ Holds(ih, S)
             /\ args' = [input_handler |-> ih, output_handler |-> oh,
                         input_path |-> ip, output_path |-> op, validation |-> v,
                         reversed |-> rev, direct |-> direct]
             /\ fs' = [h \in PathBackends |->
                          IF h = ih THEN TreeAt(KeyOf(h, ip), S) ELSE Empty]
             /\ drive' = IF ih = GDRIVE_HANDLER THEN DriveTree(S) ELSE {}
             /\ denied' = den
             /\ fresh' = DriveRoot + 2 + Len(Candidates)
    /\ UNCHANGED <<error, validators, heap, stack, runs, root, result, log, attempts,
                   call>>

NextFair == Configure \/ Next

\* the steps of set_content and of upload_folder whose effect is a few
\* assignments
RunStep ==
    \/ SetContentNext
    \/ SetContentReturn
    \/ DriveUploadFolderStart
    \/ DriveCreateFolder
    \/ UploadChild
    \/ UploadReturn

\* GetFolderContent and UploadFolderCreate, the steps that work on the
\* backend, can be taken exactly when their call stands before them: both
\* are an IF with an effect in either branch
Listing_Enabled == Running("set_content", "list")
Creating_Enabled ==
    /\ phase = "copy"
    /\ Running("upload_folder", "create")
    /\ args.output_handler \in PathBackends

\* the program is one thread that executes statement after statement: a
\* step of a running call that can be taken is taken (weak fairness of
\* each step; for the two steps on the backend it is written out)
SpecFair ==
    /\ InitFair /\ [][NextFair]_vars
    /\ WF_vars(RunStep)
    /\ ([]<>~Listing_Enabled \/ []<><<GetFolderContent>>_vars)
    /\ ([]<>~Creating_Enabled \/ []<><<UploadFolderCreate>>_vars)

--------------------------------------------------------------------------
(* The record and handler classes used without Console                    *)

\* a caller of the classes that builds the tree by hand: a Folder of the
\* enumerated tree is one built without base_path (base_location None) or
\* with an empty one, before the tree is copied
ClearBase ==
    /\ args.direct
    /\ phase = "enumerate"
    /\ stack = <<>>
    /\ \A r \in 1..Len(heap) : Truthy(heap[r].base_location)
    /\ \E r \in 1..Len(heap), b \in {None, Some(<<>>)} :
          heap' = [heap EXCEPT ![r].base_location = b]
    /\ UNCHANGED <<args, attempts, call, phase, error, validators, fs, denied, drive, stack, fresh, runs,
                   root, result, log>>

\* trees of folders on every pair of registered handlers
InitLibrary ==
    \E ih \in HANDLERS, oh \in HANDLERS, ip \in InputPaths, op \in OutputPaths,
       v \in BOOLEAN, direct \in BOOLEAN, S \in FolderShapes :
       Setup(S, ih, oh, ip, op, v, FALSE, direct, {})

NextLibrary ==
    \/ Next
    \/ ClearBase

SpecLibrary == InitLibrary /\ [][NextLibrary]_vars

--------------------------------------------------------------------------
(* Single calls of the methods of a handler                               *)

\* the most validators a caller gives a handler
MaxValidators == 2

\* the most entries of the source tree when single methods are called
MaxCallEntries == 2

\* the validators of the class Validator
ValidatorNames == {"format_validator", "name_validator"}

\* the lists of validators a handler may be given
ValidatorLists == UNION {[1..n -> ValidatorNames] : n \in 0..MaxValidators}

n_both == <<"_","_","c",".","p","y","c">>

\* the paths validate is called with: one both validators accept, one each
\* of them rejects alone, one both reject
ValidatePaths == {n_a_txt, n_c_pyc, n_pycache, n_both}

CallShapes == {S \in Shapes : Cardinality(S) <= MaxCallEntries}

\* the output folder as it is before a file is uploaded into it, with or
\* without a file a.txt of another content
DstTree(h, existing) ==
    LET k == KeyOf(h, n_dst)
        id == DriveRoot + 2 + Len(Candidates)
    IN  (k :> Entry("dir", id))
        @@ (IF existing
            THEN (Append(k, n_a_txt) :> [Entry("file", id + 1) EXCEPT !.size = SrcSize + 1])
            ELSE Empty)

DriveDst(existing) ==
    LET id == DriveRoot + 2 + Len(Candidates)
    IN  {[id |-> id, name |-> n_dst, parent |-> DriveRoot, folder |-> TRUE,
          mtime |-> SrcTime, size |-> 0]}
        \cup (IF existing
              THEN {[id |-> id + 1, name |-> n_a_txt, parent |-> id, folder |-> FALSE,
                     mtime |-> SrcTime, size |-> SrcSize + 1]}
              ELSE {})

\* a caller that builds two handlers and calls one method: the input
\* backend holds a small tree, the output backend the folder dst
InitCalls ==
    \E ih \in HANDLERS, oh \in HANDLERS, ip \in InputPaths, v \in BOOLEAN,
       existing \in BOOLEAN, S \in CallShapes :
       \E den \in SUBSET ({n_a_txt} \cap TopNames(S)) :
          /\ Holds(ih, S)
          /\ args = [input_handler |-> ih, output_handler |-> oh, input_path |-> ip,
                     output_path |-> n_dst, validation |-> v, reversed |-> FALSE,
                     direct |-> TRUE]
          /\ fs = [h \in PathBackends |->
                      (IF h = ih THEN TreeAt(KeyOf(h, ip), S) ELSE Empty)
                      @@ (IF h = oh THEN DstTree(h, existing) ELSE Empty)]
          /\ drive = (IF ih = GDRIVE_HANDLER THEN DriveTree(S) ELSE {})
                     \cup (IF oh = GDRIVE_HANDLER THEN DriveDst(existing) ELSE {})
          /\ denied = den
          /\ fresh = DriveRoot + 4 + Len(Candidates)
          /\ Unstarted

\* a call with its arguments, before its outcome is known
Call(op, side, path) == [NoCall EXCEPT !.op = op, !.side = side, !.path = path]

\* BaseHandler.set_validators(*vs) on the input handler
SetValidators ==
    /\ phase = "ready"
    /\ \E vs \in ValidatorLists : validators' = [validators EXCEPT !["in"] = vs]
    /\ UNCHANGED <<args, attempts, call, phase, error, fs, denied, drive, heap, stack, fresh,
                   runs, root, result, log>>

\* BaseHandler.validate(path) on the input handler
ValidateCall ==
    /\ phase = "ready"
    /\ phase' = "called"
    /\ \E path \in ValidatePaths :
          LET o == ValidateFrom(validators["in"], path, 1)
          IN  call' = [Call("validate", "in", path) EXCEPT !.ret = o.ret,
                                                         !.evaluated = o.evaluated]
    /\ UNCHANGED <<args, attempts, error, validators, fs, denied, drive, heap, stack, fresh,
                   runs, root, result, log>>

\* the paths a caller asks the stat of: the input folder, entries of it,
\* and a path at which there is nothing
StatPaths ==
    {args.input_path}
    \cup {args.input_path \o <<SL>> \o n : n \in {n_a_txt, n_sub, n_link, n_x}}
    \cup {args.input_path \o <<SL>> \o n_sub \o <<SL>> \o n_b_txt}

\* get_file_stat(path) or get_folder_stat(path) on the input handler
StatCall ==
    /\ phase = "ready"
    /\ phase' = "called"
    /\ \E op \in {"get_file_stat", "get_folder_stat"}, path \in StatPaths :
          \E o \in (IF op = "get_file_stat"
                    THEN get_file_stat(args.input_handler, path)
                    ELSE get_folder_stat(args.input_handler, path)) :
             call' = [Call(op, "in", path) EXCEPT !.exc = o.exc, !.stat = o.stat]
    /\ UNCHANGED <<args, attempts, error, validators, fs, denied, drive, heap, stack, fresh,
                   runs, root, result, log>>

\* the path a record of handler h has for the entry at path p: a record of
\* the Dropbox handler carries the path_display of its entry
RecordPath(h, p) == IF h = DROPBOX_HANDLER THEN PathDisplay(KeyOf(h, p)) ELSE p

\* the paths of the files a caller reads or uploads: a file of the input
\* folder and a path at which there is nothing
ContentPaths ==
    {RecordPath(args.input_handler, args.input_path \o <<SL>> \o n) : n \in {n_a_txt, n_x}}

\* get_file_content(file) on the input handler
GetFileContentCall ==
    /\ phase = "ready"
    /\ phase' = "called"
    /\ \E path \in ContentPaths :
          LET o == get_file_content(args.input_handler,
                                    FileArg(args.input_handler, path))
          IN  call' = [Call("get_file_content", "in", path) EXCEPT
                          !.exc = o.exc, !.stat = [@ EXCEPT !.size = o.size]]
    /\ UNCHANGED <<args, attempts, error, validators, fs, denied, drive, heap, stack, fresh,
                   runs, root, result, log>>

\* what a call of upload_file leaves behind: the exception that leaves it,
\* whether it returned a File, the path of that File, the backend
Uploaded(exc, ret, dest, F, D, id) ==
    [exc |-> exc, ret |-> ret, dest |-> dest, F |-> F, D |-> D, id |-> id]

FileEntry(size, mtime, id) == [kind |-> "file", mtime |-> mtime, id |-> id, size |-> size]

\* whether `except (PermissionError, OSError)` of upload_file catches exc
WriteCatches(exc) == exc \in {"PermissionError", "OSError", "IsADirectoryError"}

\* LocalHandler.upload_file and SFTPHandler.upload_file: open(.., "wb")
\* creates or empties the file before file.get_content() is evaluated; an
\* exception of get_content that is no OSError leaves the method as it is;
\* after the write and utime comes File(path=.., handler=.., stat=..)
PathUploadFile(h, F, id, file, remote_folder, content) ==
    LET new_file_path == remote_folder.path \o <<SL>> \o file.name
        k == Norm(new_file_path)
        parent == SubSeq(k, 1, Len(k) - 1)
        was == k \in DOMAIN F
        kid == IF was THEN F[k].id ELSE id
        nid == IF was THEN id ELSE id + 1
        opened == (k :> FileEntry(0, Now, kid)) @@ F
        written == (k :> FileEntry(content.size, file.modified, kid)) @@ F
    IN  IF file.name \in denied \/ ~IsDir(F, parent) \/ IsDir(F, k)
        THEN Uploaded("UnableToAccessException", FALSE, <<>>, F, drive, id)
        ELSE IF WriteCatches(content.exc)
        THEN Uploaded("UnableToAccessException", FALSE, <<>>, opened, drive, nid)
        ELSE IF content.exc # "none"
        THEN Uploaded(content.exc, FALSE, <<>>, opened, drive, nid)
        ELSE IF File # "none"
        THEN Uploaded(File, FALSE, <<>>, written, drive, nid)
        ELSE Uploaded("none", TRUE, new_file_path, written, drive, nid)

\* DropBoxHandler.upload_file: file.get_content() is evaluated as an
\* argument; files_upload in its default mode (add, no autorename) refuses
\* a path that holds something else; `except DropboxException` logs and
\* the method returns None; File(..) stands inside the try
DropboxUploadFile(F, id, file, remote_folder, content) ==
    LET leading == IF StartsWith(remote_folder.path, <<SL>>) THEN <<>> ELSE <<SL>>
        new_file_path == leading \o remote_folder.path \o <<SL>> \o file.name
        k == Norm(new_file_path)
        same == IsFile(F, k) /\ F[k].size = content.size
        conflict == Exists(F, k) /\ ~same
        written == IF same THEN F ELSE (k :> FileEntry(content.size, Now, id)) @@ F
        nid == IF same THEN id ELSE id + 1
    IN  IF content.exc # "none"
        THEN Uploaded(content.exc, FALSE, <<>>, F, drive, id)
        ELSE IF file.name \in denied \/ conflict
        THEN Uploaded("none", FALSE, <<>>, F, drive, id)
        ELSE IF File # "none"
        THEN Uploaded(File, FALSE, <<>>, written, drive, nid)
        ELSE Uploaded("none", TRUE, new_file_path, written, drive, nid)

\* GDriveHandler.upload_file: the records of that name in the remote
\* folder are deleted, then the content is read, then a file is created
DriveUploadFile(D, id, file, remote_folder, content) ==
    LET new_file_path == remote_folder.path \o <<SL>> \o file.name
        files_to_replace_id == DriveFind(D, remote_folder.id, file.name)
        D1 == D \ files_to_replace_id
        D2 == D1 \cup {[id |-> id, name |-> file.name, parent |-> remote_folder.id,
                        folder |-> FALSE, mtime |-> Now, size |-> content.size]}
    IN  IF content.exc # "none"
        THEN Uploaded(content.exc, FALSE, <<>>, fs, D1, id)
        ELSE IF file.name \in denied
        THEN Uploaded("HttpError", FALSE, <<>>, fs, D1, id)
        ELSE IF File # "none"
        THEN Uploaded(File, FALSE, <<>>, fs, D2, id + 1)
        ELSE Uploaded("none", TRUE, new_file_path, fs, D2, id + 1)

\* handler.upload_file(file, remote_folder) for the handler registered as h
upload_file(h, file, remote_folder, content) ==
    IF h = GDRIVE_HANDLER
    THEN DriveUploadFile(drive, fresh, file, remote_folder, content)
    ELSE LET o == IF h = DROPBOX_HANDLER
                  THEN DropboxUploadFile(fs[h], fresh, file, remote_folder, content)
                  ELSE PathUploadFile(h, fs[h], fresh, file, remote_folder, content)
         IN  [o EXCEPT !.F = [fs EXCEPT ![h] = o.F]]

\* upload_file(file, remote_folder) on the output handler, for a file
\* object of the input handler and the Folder of the output folder
UploadFileCall ==
    /\ phase = "ready"
    /\ phase' = "called"
    /\ \E path \in ContentPaths, st \in get_folder_stat(args.output_handler, args.output_path) :
          /\ st.exc = "none"
          /\ LET file == FileArg(args.input_handler, path)
                 remote_folder == NewFolder("out", args.output_path, None, st.stat)
                 content == get_file_content(args.input_handler, file)
                 o == upload_file(args.output_handler, file, remote_folder, content)
             IN  /\ call' = [Call("upload_file", "out", path) EXCEPT
                                !.exc = o.exc, !.ret = o.ret, !.dest = o.dest]
                 /\ fs' = o.F
                 /\ drive' = o.D
                 /\ fresh' = o.id
    /\ UNCHANGED <<args, attempts, error, validators, denied, heap, stack, runs, root,
                   result, log>>

NextCalls ==
    \/ Construct
    \/ SetValidators
    \/ ValidateCall
    \/ StatCall
    \/ GetFileContentCall
    \/ UploadFileCall

SpecCalls == InitCalls /\ [][NextCalls]_vars

--------------------------------------------------------------------------
(* Path arithmetic of the replication                                     *)

\* the calls of upload_folder that have produced their destination Folder
Producing == {i \in 1..Len(stack) : stack[i].op = "upload_folder" /\ stack[i].pc = "loop"}

\* C1, for the handlers addressed by path: the destination Folder that
\* upload_folder produces for a folder F of the source tree, at any depth,
\* has the path R + (F.path with the base location removed), where R is the
\* path the top-level call was given
C1_DestinationPath ==
    args.output_handler \in PathBackends =>
        \A i \in Producing :
            heap[stack[i].new_folder].path =
                args.output_path \o RelativePath(heap[stack[i].self])

--------------------------------------------------------------------------
(* The validation filter over the enumerated and the destination tree     *)

\* a name the exclusion patterns match or whose format is excluded
Excluded(name) == ~name_validator(name) \/ ~format_validator(name)

\* the records that are a value of the children of folder r
ChildrenOf(r) == {heap[r].children[j].ref : j \in 1..Len(heap[r].children)}

\* C2: with the validators active on both handlers, no record whose name
\* the exclusion patterns match or whose format is excluded is a value of
\* the children of any folder, of the enumerated source tree or of the
\* destination tree
C2_NoExcludedChild ==
    (validators["in"] # <<>> /\ validators["out"] # <<>>) =>
        \A r \in 1..Len(heap) : \A c \in ChildrenOf(r) : ~Excluded(heap[c].name)

--------------------------------------------------------------------------
(* Failures of single children                                            *)

\* the names of the entries directly inside the input folder
SourceTop ==
    IF args.input_handler = GDRIVE_HANDLER
    THEN {r.name : r \in {q \in drive : q.parent = DriveRoot + 1}}
    ELSE IF args.input_handler \in PathBackends
    THEN {LastOf(c) : c \in ChildKeys(fs[args.input_handler],
                                      KeyOf(args.input_handler, args.input_path))}
    ELSE {}

\* those the validators of the input handler accept
ValidatedTop == {n \in SourceTop : validate(validators["in"], n)}

\* Console.run has ended, by returning or by an exception
Ended == phase \in {"done", "crashed"}

\* C3, for a local source: when the source folder has N validated children
\* of which exactly one, the file a.txt, cannot be read, the run returns
\* normally and the returned folder has N - 1 children
C3_OneFailureIsSkipped ==
    (/\ Ended
     /\ root # 0
     /\ args.input_handler = LOCAL_HANDLER
     /\ args.output_handler \in {LOCAL_HANDLER, SFTP_HANDLER}
     /\ n_a_txt \in ValidatedTop
     /\ denied = {n_a_txt})
    => (/\ phase = "done"
        /\ Len(heap[result].children) = Cardinality(ValidatedTop) - 1)

\* C4: the children of the Folder a call of upload_folder is producing hold
\* exactly the records its recursive calls returned, one entry for each
\* child whose write succeeded and none for a child that was skipped or
\* failed
C4_ChildrenAreTheSuccesses ==
    \A i \in Producing :
        /\ ChildrenOf(stack[i].new_folder) = {stack[i].got[j] : j \in 1..Len(stack[i].got)}
        /\ Len(heap[stack[i].new_folder].children) = Len(stack[i].got)

--------------------------------------------------------------------------
(* A folder without a base location                                       *)

\* upload_folder is about to run on a folder whose base_location is unset
UnsetBaseCall ==
    Running("upload_folder", "create") /\ ~Truthy(heap[Top.self].base_location)

\* C5: a call of upload_folder on a folder whose base_location is None or
\* empty raises NoBasePathSpecifiedException; raised for a nested folder it
\* is caught by no calling loop, it ends the top-level call, and nothing
\* is done after it (no later sibling is processed)
C5_NoBasePathPropagates ==
    [][/\ phase # "crashed"
       /\ UnsetBaseCall =>
              (phase' = "crashed" /\ error' = "NoBasePathSpecifiedException")]_vars

\* the exception was raised two calls deep or deeper while the calling loop
\* still had a later sibling to process
C5_Witness ==
    /\ phase = "crashed"
    /\ error = "NoBasePathSpecifiedException"
    /\ Len(stack) >= 2
    /\ LET caller == stack[Len(stack) - 1]
       IN  caller.i < Len(heap[caller.self].children)

--------------------------------------------------------------------------
(* Whole runs                                                             *)

\* the entries below key k of tree F, relative to k
RelBelow(F, k) == {SubSeq(c, Len(k) + 1, Len(c)) : c \in Subtree(F, k) \ {k}}

\* the source tree and the destination tree of a run between file systems
SourceRel == RelBelow(fs[args.input_handler], Norm(args.input_path))
DestRel == RelBelow(fs[args.output_handler], Norm(args.output_path))

\* the entry of the destination tree at the relative path rel
DestEntry(rel) == fs[args.output_handler][Norm(args.output_path) \o rel]

BetweenFileSystems ==
    args.input_handler \in FileSystems /\ args.output_handler \in FileSystems

\* C6, between file systems: a run with the default filters over the source
\* tree root/{a.txt, sub/b.txt, __pycache__/c.pyc}, nothing failing, onto
\* an empty destination ends normally and leaves exactly dst/{a.txt,
\* sub/b.txt}
C6_RunReplicatesTheTree ==
    (/\ Ended
     /\ BetweenFileSystems
     /\ args.validation
     /\ denied = {}
     /\ SourceRel = {<<n_a_txt>>, <<n_sub>>, <<n_sub, n_b_txt>>, <<n_pycache>>,
                     <<n_pycache, n_c_pyc>>})
    => (/\ phase = "done"
        /\ DestRel = {<<n_a_txt>>, <<n_sub>>, <<n_sub, n_b_txt>>})

\* the names of the entries of the output backend
OutputNames ==
    IF args.output_handler = GDRIVE_HANDLER THEN {r.name : r \in drive}
    ELSE {LastOf(c) : c \in DOMAIN fs[args.output_handler]}

\* C7: after a run that completed, the output backend holds the manifest
\* structure.json
C7_ManifestWritten == phase = "done" => n_structure_json \in OutputNames

\* C8, between file systems: runs of the same copy over the unchanged source
\* tree root/{a.txt, sub/b.txt} raise no error, and after the second one
\* the destination holds a.txt, sub and sub/b.txt once each, the files
\* with the size of their source
C8_SecondRunChangesNothing ==
    (/\ BetweenFileSystems
     /\ root # 0
     /\ denied = {}
     /\ SourceRel = {<<n_a_txt>>, <<n_sub>>, <<n_sub, n_b_txt>>})
    => (/\ phase # "crashed"
        /\ (runs = MaxRuns /\ phase = "done") =>
               (/\ DestRel = SourceRel
                /\ DestEntry(<<n_a_txt>>).size = SrcSize
                /\ DestEntry(<<n_sub, n_b_txt>>).size = SrcSize))

\* C10, between file systems: once a run over a source folder whose only
\* entry is the readable file a.txt has ended, a.txt is at the destination
\* with the modification time and the size of the source file
C10_FileKeepsModified ==
    (/\ Ended
     /\ root # 0
     /\ BetweenFileSystems
     /\ denied = {}
     /\ SourceRel = {<<n_a_txt>>})
    => (/\ <<n_a_txt>> \in DestRel
        /\ DestEntry(<<n_a_txt>>).mtime = SrcTime
        /\ DestEntry(<<n_a_txt>>).size = SrcSize)

--------------------------------------------------------------------------
(* Creating a folder that is already there                                *)

\* the location the folder-creation step of the running upload_folder
\* works on
CreateTarget ==
    IF args.output_handler = DROPBOX_HANDLER
    THEN KeyOf(DROPBOX_HANDLER, heap[Top.self].path)
    ELSE Norm(Top.base \o RelativePath(heap[Top.self]))

\* an earlier creation step made the folder at location k of the output
\* backend
CreatedEarlier(k) ==
    \E j \in 1..Len(log) :
        /\ log[j].backend = args.output_handler
        /\ log[j].key = k
        /\ log[j].op \in {"mkdir", "create"}

\* the step is about to run on a path-addressed backend a second time: an
\* earlier step made its folder, which is there
SecondCreation ==
    /\ Running("upload_folder", "create")
    /\ args.output_handler \in PathBackends
    /\ Truthy(heap[Top.self].base_location)
    /\ CreatedEarlier(CreateTarget)
    /\ IsDir(fs[args.output_handler], CreateTarget)

\* the next segment of the running GDriveHandler.upload_folder is a folder
\* that is already there
DriveSecondCreation ==
    /\ Running("upload_folder", "segments")
    /\ LET parent_id == IF Top.new_folder = 0 THEN DriveRoot
                        ELSE heap[Top.new_folder].id
       IN  \E r \in DriveFind(drive, parent_id, Top.segs[1]) : r.folder

\* the step has not raised: the call goes on
StepReturned ==
    /\ phase = "copy"
    /\ stack # <<>>
    /\ Top.op = "upload_folder"
    /\ Top.pc \in {"segments", "loop"}

\* what was inside the folder before the step is there unchanged after it
ContentKept ==
    LET F == fs[args.output_handler]
    IN  \A c \in Subtree(F, CreateTarget) \ {CreateTarget} :
            /\ c \in DOMAIN fs'[args.output_handler]
            /\ fs'[args.output_handler][c] = F[c]

\* no two Drive records of the same name in the same folder
NoDuplicate ==
    \A r1 \in drive, r2 \in drive :
        (r1.parent = r2.parent /\ r1.name = r2.name) => r1 = r2

--------------------------------------------------------------------------
(* The records of the source and of the destination tree                  *)

\* the records of handler side on the heap hp
RecordsOf(hp, side) == {r \in 1..Len(hp) : hp[r].handler = side}

\* C11: no step of a replication, whether it goes on, skips a child or
\* aborts, changes a record of the source tree (handler, path, metadata,
\* base_location and children stay as they were), and every record of the
\* destination tree, with every record among its children, has the
\* destination handler as its handler
C11_SourceRecordsUntouched ==
    [][phase = "copy" =>
          /\ \A r \in RecordsOf(heap, "in") : r <= Len(heap') /\ heap'[r] = heap[r]
          /\ \A r \in 1..Len(heap') : r > Len(heap) => heap'[r].handler = "out"
          /\ \A r \in RecordsOf(heap', "out") :
                 \A j \in 1..Len(heap'[r].children) :
                     heap'[heap'[r].children[j].ref].handler = "out"]_vars

\* a replication that failed in part has returned: a child of the source
\* root was skipped after an access failure, another one was replicated
C11_Witness ==
    /\ phase = "done"
    /\ denied # {}
    /\ Len(heap[result].children) >= 1
    /\ Len(heap[result].children) < Len(heap[root].children)
    /\ heap[result].handler = "out"

--------------------------------------------------------------------------
(* The validation filter as a function                                    *)

\* the validators of list vs that reject path, by position
Rejecting(vs, path) == {i \in 1..Len(vs) : ~CallValidator(vs[i], path)}

\* the lists that hold the validators of vs in another order
Reorderings(vs) ==
    {[i \in 1..Len(vs) |-> vs[f[i]]] : f \in Permutations(1..Len(vs))}

\* C12: validate(path) returns true exactly when every validator of the
\* handler's list accepts path (true for the empty list), it returns the
\* same for the list in any other order, and it calls no validator after
\* the first one that rejects
C12_ValidateIsConjunction ==
    call.op = "validate" =>
        LET vs == validators[call.side]
            rejecting == Rejecting(vs, call.path)
        IN  /\ call.ret = (rejecting = {})
            /\ \A q \in Reorderings(vs) : validate(q, call.path) = call.ret
            /\ call.evaluated =
                   IF rejecting = {} THEN Len(vs)
                   ELSE CHOOSE i \in rejecting : \A j \in rejecting : i <= j

\* validate has returned false at the first of two validators, the second
\* of which accepts the path
C12_Witness ==
    /\ call.op = "validate"
    /\ Len(validators[call.side]) = 2
    /\ Rejecting(validators[call.side], call.path) = {1}
    /\ ~call.ret
    /\ call.evaluated = 1

--------------------------------------------------------------------------
(* What a stat reports                                                    *)

\* C13: get_file_stat(path) and get_folder_stat(path) raise
\* RecordNotFoundException when there is nothing at path, NotFileException
\* or NotFolderException when the entry at path is of the other kind, and
\* return the metadata only when the entry is of the kind asked for
C13_StatReportsKind ==
    call.op \in {"get_file_stat", "get_folder_stat"} =>
        LET kind == KindAt(KindOf(call.side), call.path)
            wanted == IF call.op = "get_file_stat" THEN "file" ELSE "dir"
        IN  call.exc =
               IF kind = "none" THEN "RecordNotFoundException"
               ELSE IF kind = wanted THEN "none"
               ELSE IF wanted = "file" THEN "NotFileException"
               ELSE "NotFolderException"

--------------------------------------------------------------------------
(* Reading a file that cannot be read                                     *)

\* the file of the call is missing, or access to it is refused
Unreadable == KindAt(KindOf(call.side), call.path) = "none"
              \/ PathName(call.path) \in denied

\* C14: when get_file_content cannot read the file, because it is missing
\* or access to it is refused, the exception it raises is
\* UnableToAccessException, the one the loop of upload_folder catches
C14_UnreadableIsAccessError ==
    (call.op = "get_file_content" /\ Unreadable) =>
        call.exc = "UnableToAccessException"

--------------------------------------------------------------------------
(* Errors during enumeration                                              *)

\* set_content of the input folder has returned in the running run
EnumerationReturned ==
    attempts # <<>> \/ (phase = "enumerate" /\ stack = <<>>)

\* C15, for an entry of the input folder whose stat raises the not-found
\* error (a symbolic link whose target is missing, listed and validated):
\* the error leaves get_folder_content and set_content, so the enumeration
\* of the input folder does not return
C15_NotFoundAbortsEnumeration ==
    (/\ root # 0
     /\ args.input_handler \in FileSystems
     /\ n_link \in ValidatedTop)
    => ~EnumerationReturned

--------------------------------------------------------------------------
(* The base location of the enumerated tree                               *)

\* C16: every Folder of the tree that set_content builds under the input
\* folder, at every depth and on every handler, has the base_location the
\* input folder was created with
C16_BaseLocationInherited ==
    \A r \in RecordsOf(heap, "in") :
        /\ heap[root].base_location = Some(args.input_path)
        /\ heap[r].base_location = heap[root].base_location

\* the enumeration of a Dropbox folder has built the Folder of an entry
\* two levels below the input folder
C16_Witness ==
    /\ args.input_handler = DROPBOX_HANDLER
    /\ phase = "copy"
    /\ \E r \in RecordsOf(heap, "in") :
           /\ heap[r].name = n_x
           /\ \E q \in RecordsOf(heap, "in") :
                  q # root /\ r \in ChildrenOf(q) /\ q \in ChildrenOf(root)

--------------------------------------------------------------------------
(* No rollback                                                            *)

\* the position of the mark of the current run in the log
LastRun(l) ==
    LET marks == {i \in 1..Len(l) : l[i].op = "run"}
    IN  IF marks = {} THEN 0 ELSE CHOOSE i \in marks : \A j \in marks : j <= i

\* the entries the current run has written so far
WrittenInRun ==
    {log[i] : i \in {j \in 1..Len(log) :
                       j > LastRun(log) /\ log[j].op \in {"mkdir", "create"}}}

\* C17: no step of a run (the skip of a child, an abort, the creation of a
\* later folder) removes or alters an entry that the same run has written
\* to the destination before
C17_WrittenEntriesStay ==
    [][\A e \in WrittenInRun :
          IF e.backend = GDRIVE_HANDLER
          THEN LET written == {r \in drive : r.parent = e.key[1] /\ r.name = e.key[2]}
               IN  written # {} /\ written \subseteq drive'
          ELSE /\ e.key \in DOMAIN fs[e.backend]
               /\ e.key \in DOMAIN fs'[e.backend]
               /\ fs'[e.backend][e.key] = fs[e.backend][e.key]]_vars

\* a run onto Dropbox has written a folder, made a later folder (deleting
\* first what is at that folder's path), and then was aborted
C17_Witness ==
    /\ args.output_handler = DROPBOX_HANDLER
    /\ phase = "crashed"
    /\ Cardinality(WrittenInRun) >= 2
    /\ \E i \in 1..Len(log) : i > LastRun(log) /\ log[i].op = "delete"

--------------------------------------------------------------------------
(* upload_file                                                            *)

\* the sizes of the files of that name directly in the output folder
SizesAtDestination(name) ==
    LET h == args.output_handler
    IN  IF h = GDRIVE_HANDLER
        THEN {r.size : r \in {q \in drive :
                 /\ q.name = name /\ ~q.folder
                 /\ \E d \in DriveFind(drive, DriveRoot, args.output_path) :
                        q.parent = d.id}}
        ELSE LET k == Append(KeyOf(h, args.output_path), name)
             IN  IF IsFile(fs[h], k) THEN {fs[h][k].size} ELSE {}

\* C18: after a call of upload_file that raised nothing, the output folder
\* holds under the name of the source file exactly the bytes of the source
\* file, whether or not there was an entry of that name before, and the
\* File returned has the path of the output folder + "/" + that name
C18_UploadFileWritesTheBytes ==
    (call.op = "upload_file" /\ call.exc = "none")
        => /\ call.ret
           /\ SizesAtDestination(PathName(call.path)) = {SrcSize}
           /\ Norm(call.dest) = Append(KeyOf(args.output_handler, args.output_path),
                                       PathName(call.path))

--------------------------------------------------------------------------
(* Handler names                                                          *)

\* C19: Console(...) with an input or an output handler name that is not
\* registered raises its error at once: no handler is built (no handler
\* gets validators), nothing is enumerated and no backend is written
C19_UnknownNameRaisesFirst ==
    [][(/\ phase = "new"
        /\ ~args.direct
        /\ (args.input_handler \notin HANDLERS \/ args.output_handler \notin HANDLERS))
          => /\ phase' = "crashed"
             /\ error' = "Exception"
             /\ UNCHANGED <<validators, fs, drive, heap, stack, log, runs, fresh>>]_vars

\* Console was given a registered input name and an unknown output name,
\* and raised
C19_Witness ==
    /\ phase = "crashed"
    /\ error = "Exception"
    /\ ~args.direct
    /\ args.input_handler \in HANDLERS
    /\ args.output_handler \notin HANDLERS
    /\ heap = <<>> /\ log = <<>>

--------------------------------------------------------------------------
(* One pass, depth first                                                  *)

\* the source records whose upload has been started by this run
Attempted == {attempts[i] : i \in 1..Len(attempts)}

\* C20: within one top-level upload_folder no source record is taken twice
\* (a child whose upload failed is not taken again), the call that runs
\* below a loop is the one for the child the loop stands at, and no child
\* behind that position, in the stored order of the children, has been
\* started: a subtree is finished before the next sibling is begun
C20_SinglePassDepthFirst ==
    /\ \A a, b \in 1..Len(attempts) : a # b => attempts[a] # attempts[b]
    /\ phase = "copy" =>
          \A j \in 1..Len(stack) :
             LET children == heap[stack[j].self].children
                 i == stack[j].i
             IN  /\ stack[j].op = "upload_folder"
                 /\ stack[j].self \in Attempted
                 /\ \A m \in 1..Len(children) :
                       (m > i \/ (m = i /\ j = Len(stack)))
                           => children[m].ref \notin Attempted
                 /\ j < Len(stack) =>
                       /\ i <= Len(children)
                       /\ stack[j + 1].self = children[i].ref

\* a run has ended in which the upload of a child failed and was passed
\* over and a sibling behind it was uploaded
C20_Witness ==
    /\ phase = "done"
    /\ \E a, b \in 1..Len(attempts) :
          /\ a < b
          /\ heap[attempts[a]].name \in denied
          /\ {attempts[a], attempts[b]} \subseteq ChildrenOf(root)
          /\ \E r \in ChildrenOf(result) : heap[r].name = heap[attempts[b]].name

--------------------------------------------------------------------------
(* Termination                                                            *)

\* C21: for every source tree and every pattern of failures, set_content
\* on the input folder ends (it returns, or an exception leaves it), and
\* upload_folder with content ends (it returns the destination Folder, or
\* an exception leaves it)
C21_RunTerminates ==
    /\ (phase = "enumerate" /\ stack # <<>>)
          ~> (phase = "crashed" \/ (phase = "enumerate" /\ stack = <<>>))
    /\ (phase = "copy") ~> (phase \in {"done", "crashed"})

\* upload_folder has returned from a tree three levels deep in a run in
\* which the upload of a child failed
C21_Witness ==
    /\ phase = "done"
    /\ stack = <<>>
    /\ denied # {}
    /\ \E r \in RecordsOf(heap, "in") :
           \E q \in ChildrenOf(root) : r \in ChildrenOf(q)
    /\ Cardinality(RecordsOf(heap, "out")) < Cardinality(RecordsOf(heap, "in"))

--------------------------------------------------------------------------
(* A filter changed between enumeration and replication                   *)

\* the children of the input folder that the list of the output handler
\* rejects, and those it accepts
RejectedAtWrite ==
    {heap[root].children[j].ref : j \in {i \in 1..Len(heap[root].children) :
        ~validate(validators["out"], heap[root].children[i].key)}}
AcceptedAtWrite == ChildrenOf(root) \ RejectedAtWrite

\* C22: when the output handler was given, after the enumeration, a list
\* that rejects the path of an enumerated child, the upload of that child
\* (and of anything below it) is never started and the destination folder
\* gets no child for it, while every sibling the list accepts is uploaded
\* and, when no upload fails, becomes a child of the destination folder
C22_FilterChangeHonoured ==
    (phase \in {"copy", "done"} /\ validators["out"] \in FilterLists) =>
        /\ \A c \in RejectedAtWrite :
              /\ c \notin Attempted
              /\ \A g \in ChildrenOf(c) : g \notin Attempted
        /\ phase = "done" =>
              /\ AcceptedAtWrite \subseteq Attempted
              /\ denied = {} =>
                    Cardinality(ChildrenOf(result)) = Cardinality(AcceptedAtWrite)

\* a run has ended in which the folder sub, enumerated with a folder in it,
\* was rejected by the list installed afterwards and a sibling was uploaded
C22_Witness ==
    /\ phase = "done"
    /\ validators["out"] \in FilterLists
    /\ \E c \in RejectedAtWrite : ChildrenOf(c) # {}
    /\ denied = {}
    /\ AcceptedAtWrite # {}
    /\ ChildrenOf(result) # {}

--------------------------------------------------------------------------
(* Create or reuse on Drive                                               *)

\* the names of the records from the Drive root folder down to record id
RECURSIVE DriveNames(_, _)
DriveNames(D, id) ==
    IF id = DriveRoot \/ ~\E r \in D : r.id = id THEN <<>>
    ELSE LET r == CHOOSE q \in D : q.id = id
         IN  Append(DriveNames(D, r.parent), r.name)

\* C23: on Drive every step of upload_folder creates at most one record, a
\* folder, and only under a parent that holds no record of that name (a
\* record that is there is reused, so the number of records of one name
\* under one parent does not grow); the Folder produced for a segment is
\* the record reached from the Drive root by the segments of its path, each
\* resolved under the one before
C23_DriveCreateOrReuse ==
    [][args.output_handler = GDRIVE_HANDLER =>
          /\ drive \subseteq drive'
          /\ Cardinality(drive' \ drive) <= 1
          /\ \A q \in drive' \ drive :
                /\ q.folder
                /\ ~\E r \in drive : r.parent = q.parent /\ r.name = q.name
          /\ \A o \in RecordsOf(heap', "out") :
                DriveNames(drive', heap'[o].id) = NonEmpty(Split(heap'[o].path, SL))]_vars

\* a second run onto Drive has ended that found every folder of the
\* destination path there and created nothing
C23_Witness ==
    /\ args.output_handler = GDRIVE_HANDLER
    /\ phase = "done"
    /\ runs = 2
    /\ WrittenInRun = {}
    /\ ChildrenOf(result) # {}
    /\ \E c \in ChildrenOf(result) : ChildrenOf(c) # {}

--------------------------------------------------------------------------
(* Where the Dropbox handler deletes and creates                          *)

\* C24: upload_folder of the Dropbox handler deletes and creates at the
\* destination path only (at or below the path the top-level call was
\* given), and the Folder it returns has the path at which the folder was
\* created
C24_DropboxWritesAtDestination ==
    args.output_handler = DROPBOX_HANDLER =>
        /\ \A i \in 1..Len(log) :
              log[i].op \in {"delete", "create"} =>
                  StartsWith(log[i].key, KeyOf(DROPBOX_HANDLER, args.output_path))
        /\ \A o \in RecordsOf(heap, "out") :
              IsDir(fs[DROPBOX_HANDLER], KeyOf(DROPBOX_HANDLER, heap[o].path))

--------------------------------------------------------------------------
(* The hierarchy of the destination tree                                  *)

\* C25, between file systems: the destination path upload_folder computes
\* for a child folder is the destination path computed for its parent +
\* "/" + the name of the child, so that two source folders never get the
\* same destination path
C25_HierarchyPreserved ==
    (phase = "copy" /\ args.output_handler \in FileSystems) =>
        \A j \in Producing :
            j > 1 =>
                stack[j].dest
                    = stack[j - 1].dest \o <<SL>> \o heap[stack[j].self].name

--------------------------------------------------------------------------
(* The verdict at enumeration and the verdict at replication              *)

\* input root paths: relative, absolute, starting with "."
RootPaths == {n_root, <<SL>> \o n_root, <<DOT, SL>> \o n_root}

\* C26, for a file system as source: an entry name that the list of
\* validators accepts when the folder is listed (validate of the name) is
\* accepted again when its record is replicated under the same list
\* (validate of the key of the children mapping, the path of the input
\* folder + "/" + the name), whatever the input root path
C26_SameVerdictAtWrite ==
    (/\ call.op = "validate"
     /\ call.ret
     /\ args.input_handler \in FileSystems)
    => \A r \in RootPaths : validate(validators["in"], r \o <<SL>> \o call.path)

--------------------------------------------------------------------------
(* A transfer that fails                                                  *)

\* the read of the source file of the call fails
SourceUnreadable ==
    get_file_content(args.input_handler,
                     FileArg(args.input_handler, call.path)).exc # "none"

\* C27: after a call of upload_file whose source could not be read, the
\* output folder holds under that name what it held before: nothing, or
\* the file of the old content, and no empty or partial file
C27_FailedTransferLeavesNothing ==
    (call.op = "upload_file" /\ SourceUnreadable)
        => SizesAtDestination(PathName(call.path)) \subseteq {SrcSize + 1}

--------------------------------------------------------------------------
(* The precondition comes first                                           *)

\* C28: a call of upload_folder on a folder whose base_location is unset
\* raises NoBasePathSpecifiedException and leaves every backend as it was:
\* it creates no folder and deletes no object
C28_PreconditionBeforeAnyChange ==
    [][(phase # "crashed" /\ UnsetBaseCall)
          => /\ error' = "NoBasePathSpecifiedException"
             /\ fs' = fs
             /\ drive' = drive]_vars

--------------------------------------------------------------------------
(* A child folder that cannot be created                                  *)

\* the call of upload_folder at the top of the stack is about to fail with
\* the access error: the backend refuses the folder it has to create
MaterializeFails ==
    /\ phase = "copy"
    /\ stack # <<>>
    /\ Top.op = "upload_folder"
    /\ \/ /\ args.output_handler \in FileSystems
          /\ Top.pc = "create"
          /\ PathUploadFolderHead(args.output_handler, fs[args.output_handler], fresh,
                                  heap[Top.self], Top.base).exc
                = "UnableToAccessException"
       \/ /\ args.output_handler = GDRIVE_HANDLER
          /\ Top.pc = "segments"
          /\ Top.segs[1] \in denied
          /\ LET parent_id == IF Top.new_folder = 0 THEN DriveRoot
                                                      ELSE heap[Top.new_folder].id
             IN  ~\E r \in drive : r.parent = parent_id /\ r.name = Top.segs[1]

\* C29: on Local, SFTP and Drive, when the creation of the destination of
\* a nested child folder fails with the access error, the calling
\* upload_folder goes on with its next child: the failed child and
\* everything below it are left out (no record is built, nothing is added
\* to the destination children, no upload is started below it), and the
\* access error of a nested call never ends the run
C29_FailedChildSkipped ==
    [][/\ (MaterializeFails /\ Len(stack) >= 2)
          => /\ stack' = Append(SubSeq(stack, 1, Len(stack) - 2),
                                [stack[Len(stack) - 1] EXCEPT !.i = @ + 1])
             /\ heap' = heap
             /\ attempts' = attempts
             /\ ChildrenOf(Top.self) \cap Attempted = {}
             /\ phase' = "copy"
             /\ error' = error
       /\ (/\ phase = "copy" /\ phase' = "crashed"
           /\ error' = "UnableToAccessException"
           /\ args.output_handler # DROPBOX_HANDLER)
          => Len(stack) = 1]_vars

\* a run has ended normally in which the folder sub, which holds a folder,
\* could not be created: nothing below it was started and the destination
\* has no child of that name
C29_Witness ==
    /\ phase = "done"
    /\ args.output_handler \in {LOCAL_HANDLER, SFTP_HANDLER, GDRIVE_HANDLER}
    /\ n_sub \in denied
    /\ \E a \in Attempted \cap ChildrenOf(root) :
          /\ heap[a].name = n_sub
          /\ ChildrenOf(a) # {}
          /\ ChildrenOf(a) \cap Attempted = {}
    /\ \A r \in ChildrenOf(result) : heap[r].name # n_sub

--------------------------------------------------------------------------
(* The parent before the child                                            *)

\* the folder a destination record stands for is on the output backend: the
\* folder at its path, on Drive the folder of its id
Materialized(rec) ==
    IF args.output_handler = GDRIVE_HANDLER
    THEN \E r \in drive : r.id = rec.id /\ r.folder
    ELSE IsDir(fs[args.output_handler], KeyOf(args.output_handler, rec.path))

\* C30: in every run the destination folder of a call of upload_folder is
\* on the backend while the call takes its children (the folder that a
\* file write new_folder.path + "/" + name and the record of a child go
\* into has been created or found by this run), and a call for a child
\* changes the backend only when the call for its parent has produced its
\* destination folder
C30_ParentBeforeChild ==
    [][phase = "copy" =>
          /\ \A j \in Producing :
                heap[stack[j].self].children # <<>>
                    => Materialized(heap[stack[j].new_folder])
          /\ (Len(stack) >= 2 /\ log' # log) =>
                 /\ stack[Len(stack) - 1].pc = "loop"
                 /\ stack[Len(stack) - 1].new_folder # 0
                 /\ Materialized(heap[stack[Len(stack) - 1].new_folder])]_vars

====
